---- MODULE Spec2Model ----
(***************************************************************************)
(* const_graphs: Graph<SIZE> (src/src/graph.rs) and WeightedGraph<SIZE>    *)
(* (src/src/weighted_graph.rs), two adjacency matrices of compile-time     *)
(* side SIZE.  One behaviour of the model is the life of one graph value:  *)
(* it is built by new() and then receives an arbitrary sequence of method  *)
(* calls.  After each call the caller holds the returned value (pc =       *)
(* "returned") until it drops it and is ready for the next call.           *)
(*                                                                         *)
(* Indexing an array [T; SIZE] with an index >= SIZE is a bounds-check     *)
(* panic in Rust ("index out of bounds"); `SIZE - 1` on usize with         *)
(* SIZE = 0 panics when overflow checks are on and wraps when they are     *)
(* off.  Both builds are outcomes of the model.                            *)
(***************************************************************************)
EXTENDS Integers, Sequences, FiniteSets

\* Largest side SIZE of the graphs that are explored.
MaxSize == 2

\* f32 has a 24-bit significand: integers below 2^24 convert exactly.
F32_MANTISSA_DIGITS == 24

\* The f32 weights handed to WeightedGraph (0 stands for 0.0, 16 for 16.0).
Weights == {0, 16}

VARIABLES
  SIZE,      \* the const generic parameter SIZE
  kind,      \* "Graph" or "WeightedGraph": which struct this value is
  data,      \* the field `data`: data[i][j], i, j in 0..SIZE-1
  pc,        \* the caller: "returned" (holds a result) or "ready"
  op,        \* the method of the last call
  args,      \* its arguments
  ret,       \* what it returned, or the panic that ended it
  before,    \* `data` as it was when the last call started
  directed   \* whether add_edge or remove_edge has ever written a cell

vars == <<SIZE, kind, data, pc, op, args, ret, before, directed>>

----------------------------------------------------------------------------
\* Values

\* Option<f32>
None == <<>>
Some(w) == <<w>>
is_some(c) == c # None

\* The unit value () returned by the mutating methods.
Unit == "()"

\* A call that returned v.
Ok(v) == [status |-> "ok", val |-> v]
\* A call that returned v from a build without overflow checks, after a
\* usize operation wrapped around.
Wrapped(v) == [status |-> "wrapped", val |-> v]
\* A call ended by a panic.
Panic(msg) == [status |-> "panic", val |-> msg]
PanicIndex == Panic("index out of bounds")
PanicSub == Panic("attempt to subtract with overflow")

Rows == 0 .. (SIZE - 1)

\* The bounds check of indexing a [T; SIZE] array with a usize.
InBounds(idx) == idx < SIZE

\* The statement `self.data[i][j] = v`.
Store(d, i, j, v) ==
  IF InBounds(i) /\ InBounds(j)
    THEN [data |-> [d EXCEPT ![i][j] = v], panicked |-> FALSE]
    ELSE [data |-> d, panicked |-> TRUE]

\* The expression `self.data[i][j]`.
Load(d, i, j) ==
  IF InBounds(i) /\ InBounds(j) THEN Ok(d[i][j]) ELSE PanicIndex

----------------------------------------------------------------------------
\* f32 arithmetic on the values density() meets.

RECURSIVE Pow2(_)
Pow2(e) == IF e = 0 THEN 1 ELSE 2 * Pow2(e - 1)

RECURSIVE F32Unit(_, _)
\* The spacing of f32 values around the integer n >= 0.
F32Unit(n, u) ==
  IF n \div u < Pow2(F32_MANTISSA_DIGITS) THEN u ELSE F32Unit(n, 2 * u)

\* `n as f32` for an integer n >= 0: round to nearest, ties to even.
AsF32(n) ==
  LET u == F32Unit(n, 1)
      q == n \div u
      r == n % u
  IN  IF 2 * r < u \/ (2 * r = u /\ q % 2 = 0) THEN q * u ELSE (q + 1) * u

RECURSIVE GCD(_, _)
GCD(a, b) == IF b = 0 THEN a ELSE GCD(b, a % b)

F32NaN == [kind |-> "nan", num |-> 0, den |-> 0]
F32Inf == [kind |-> "inf", num |-> 1, den |-> 0]
F32(n, m) == [kind |-> "finite", num |-> n, den |-> m]

\* a / b on f32 values that are integers a, b >= 0: 0/0 is NaN, a/0 is
\* +infinity, otherwise the quotient, written in lowest terms (quotients of
\* small integers that differ as fractions differ as f32 values).
F32Div(a, b) ==
  IF b = 0
    THEN IF a = 0 THEN F32NaN ELSE F32Inf
    ELSE F32(a \div GCD(a, b), b \div GCD(a, b))

\* == on f32: NaN equals nothing, itself included.
F32Eq(x, y) == x.kind # "nan" /\ y.kind # "nan" /\ x = y

----------------------------------------------------------------------------
\* Graph<SIZE> (src/src/graph.rs).  Every method is an operator from the
\* matrix d (and the arguments) to [data |-> the matrix it leaves,
\* ret |-> what the caller gets].

Graph_new == [i \in Rows |-> [j \in Rows |-> FALSE]]

\* A variant of add_edge that also writes the opposite cell.
Graph_add_edge_both(d, i, j) ==
  LET s == Store(d, i, j, TRUE)
  IN  IF s.panicked
        THEN [data |-> s.data, ret |-> PanicIndex]
        ELSE [data |-> Store(s.data, j, i, TRUE).data, ret |-> Ok(Unit)]

Graph_add_edge(d, i, j) ==
  LET s == Store(d, i, j, TRUE)
  IN  [data |-> s.data, ret |-> IF s.panicked THEN PanicIndex ELSE Ok(Unit)]

Graph_add_edge_undirected(d, i, j) ==
  LET s1 == Store(d, i, j, TRUE)
  IN  IF s1.panicked
        THEN [data |-> s1.data, ret |-> PanicIndex]
        ELSE LET s2 == Store(s1.data, j, i, TRUE)
             IN  [data |-> s2.data,
                  ret |-> IF s2.panicked THEN PanicIndex ELSE Ok(Unit)]

Graph_remove_edge(d, i, j) ==
  LET s == Store(d, i, j, FALSE)
  IN  [data |-> s.data, ret |-> IF s.panicked THEN PanicIndex ELSE Ok(Unit)]

\* A variant of remove_edge_undirected that clears only the cell (i, j).
Graph_remove_edge_undirected_one_way(d, i, j) ==
  LET s == Store(d, i, j, FALSE)
  IN  [data |-> s.data, ret |-> IF s.panicked THEN PanicIndex ELSE Ok(Unit)]

Graph_remove_edge_undirected(d, i, j) ==
  LET s1 == Store(d, i, j, FALSE)
  IN  IF s1.panicked
        THEN [data |-> s1.data, ret |-> PanicIndex]
        ELSE LET s2 == Store(s1.data, j, i, FALSE)
             IN  [data |-> s2.data,
                  ret |-> IF s2.panicked THEN PanicIndex ELSE Ok(Unit)]

Graph_has_edge(d, i, j) == [data |-> d, ret |-> Load(d, i, j)]

\* `&self.data[vertex]`: the row itself.
Graph_get_edges(d, vertex) ==
  [data |-> d, ret |-> IF InBounds(vertex) THEN Ok(d[vertex]) ELSE PanicIndex]

RECURSIVE Graph_inverse_loop(_, _, _, _)
\* The while loop of get_inverse_edges, from `neighbor` on.
Graph_inverse_loop(d, vertex, neighbor, edges) ==
  IF neighbor < SIZE
    THEN LET c == Load(d, neighbor, vertex)
         IN  IF c.status = "panic"
               THEN c
               ELSE Graph_inverse_loop(d, vertex, neighbor + 1,
                                       [edges EXCEPT ![neighbor] = c.val])
    ELSE Ok(edges)

\* A variant of get_inverse_edges that returns the row of `vertex`.
Graph_get_inverse_edges_row(d, vertex) ==
  [data |-> d,
   ret |-> IF InBounds(vertex)
             THEN Ok([k \in Rows |-> d[vertex][k]])
             ELSE PanicIndex]

Graph_get_inverse_edges(d, vertex) ==
  [data |-> d,
   ret |-> Graph_inverse_loop(d, vertex, 0, [k \in Rows |-> FALSE])]

\* `SIZE * (SIZE - 1)` on usize.  SIZE - 1 underflows exactly when SIZE = 0:
\* a panic with overflow checks, usize::MAX without, and then
\* 0 * usize::MAX = 0.  The product itself never overflows: the SIZE * SIZE
\* cells of `data` fit the address space.
Graph_max_number_of_edges(checks) ==
  IF SIZE < 1
    THEN IF checks THEN PanicSub ELSE Wrapped(0)
    ELSE Ok(SIZE * (SIZE - 1))

RECURSIVE Graph_density_loop_no_self(_, _, _, _)
\* A variant of the loops of density that does not count the cells (i, i).
Graph_density_loop_no_self(d, i, j, edges) ==
  IF i < SIZE
    THEN IF j < SIZE
           THEN Graph_density_loop_no_self(d, i, j + 1,
                  IF d[i][j] /\ i # j THEN edges + 1 ELSE edges)
           ELSE Graph_density_loop_no_self(d, i + 1, 0, edges)
    ELSE edges

RECURSIVE Graph_density_loop(_, _, _, _)
\* The two nested while loops of density, from cell (i, j) on; `edges` is
\* an i32 and is far from its maximum for every SIZE explored here.
Graph_density_loop(d, i, j, edges) ==
  IF i < SIZE
    THEN IF j < SIZE
           THEN Graph_density_loop(d, i, j + 1,
                                   IF d[i][j] THEN edges + 1 ELSE edges)
           ELSE Graph_density_loop(d, i + 1, 0, edges)
    ELSE edges

Graph_density(d, checks) ==
  LET edges == Graph_density_loop(d, 0, 0, 0)
      max == Graph_max_number_of_edges(checks)
  IN  [data |-> d,
       ret |-> IF max.status = "panic"
                 THEN max
                 ELSE [status |-> max.status,
                       val |-> F32Div(AsF32(edges), AsF32(max.val))]]

RECURSIVE Graph_clear_loop(_, _, _)
\* The two nested while loops of clear, from cell (i, j) on.
Graph_clear_loop(d, i, j) ==
  IF i < SIZE
    THEN IF j < SIZE
           THEN Graph_clear_loop(Store(d, i, j, FALSE).data, i, j + 1)
           ELSE Graph_clear_loop(d, i + 1, 0)
    ELSE d

Graph_clear(d) == [data |-> Graph_clear_loop(d, 0, 0), ret |-> Ok(Unit)]

----------------------------------------------------------------------------
\* WeightedGraph<SIZE> (src/src/weighted_graph.rs).

WeightedGraph_new == [i \in Rows |-> [j \in Rows |-> None]]

WeightedGraph_add_edge(d, i, j, weight) ==
  LET s == Store(d, i, j, Some(weight))
  IN  [data |-> s.data, ret |-> IF s.panicked THEN PanicIndex ELSE Ok(Unit)]

\* A variant of add_edge_undirected whose second statement writes the cell
\* (i, j) again.
WeightedGraph_add_edge_undirected_once(d, i, j, weight) ==
  LET s1 == Store(d, i, j, Some(weight))
  IN  IF s1.panicked
        THEN [data |-> s1.data, ret |-> PanicIndex]
        ELSE LET s2 == Store(s1.data, i, j, Some(weight))
             IN  [data |-> s2.data,
                  ret |-> IF s2.panicked THEN PanicIndex ELSE Ok(Unit)]

WeightedGraph_add_edge_undirected(d, i, j, weight) ==
  LET s1 == Store(d, i, j, Some(weight))
  IN  IF s1.panicked
        THEN [data |-> s1.data, ret |-> PanicIndex]
        ELSE LET s2 == Store(s1.data, j, i, Some(weight))
             IN  [data |-> s2.data,
                  ret |-> IF s2.panicked THEN PanicIndex ELSE Ok(Unit)]

WeightedGraph_remove_edge(d, i, j) ==
  LET s == Store(d, i, j, None)
  IN  [data |-> s.data, ret |-> IF s.panicked THEN PanicIndex ELSE Ok(Unit)]

\* A variant of remove_edge_undirected that clears only the cell (i, j).
WeightedGraph_remove_edge_undirected_one_way(d, i, j) ==
  LET s == Store(d, i, j, None)
  IN  [data |-> s.data, ret |-> IF s.panicked THEN PanicIndex ELSE Ok(Unit)]

WeightedGraph_remove_edge_undirected(d, i, j) ==
  LET s1 == Store(d, i, j, None)
  IN  IF s1.panicked
        THEN [data |-> s1.data, ret |-> PanicIndex]
        ELSE LET s2 == Store(s1.data, j, i, None)
             IN  [data |-> s2.data,
                  ret |-> IF s2.panicked THEN PanicIndex ELSE Ok(Unit)]

WeightedGraph_get_edge(d, i, j) == [data |-> d, ret |-> Load(d, i, j)]

\* A variant of has_edge that takes the weight 0.0 for no edge.
WeightedGraph_has_edge_nonzero(d, i, j) ==
  LET c == Load(d, i, j)
  IN  [data |-> d,
       ret |-> IF c.status = "panic"
                 THEN c
                 ELSE Ok(is_some(c.val) /\ c.val # Some(0))]

WeightedGraph_has_edge(d, i, j) ==
  LET c == Load(d, i, j)
  IN  [data |-> d,
       ret |-> IF c.status = "panic" THEN c ELSE Ok(is_some(c.val))]

WeightedGraph_get_edges(d, vertex) ==
  [data |-> d, ret |-> IF InBounds(vertex) THEN Ok(d[vertex]) ELSE PanicIndex]

RECURSIVE WeightedGraph_inverse_loop(_, _, _, _)
WeightedGraph_inverse_loop(d, vertex, neighbor, edges) ==
  IF neighbor < SIZE
    THEN LET c == Load(d, neighbor, vertex)
         IN  IF c.status = "panic"
               THEN c
               ELSE WeightedGraph_inverse_loop(d, vertex, neighbor + 1,
                                               [edges EXCEPT ![neighbor] = c.val])
    ELSE Ok(edges)

WeightedGraph_get_inverse_edges(d, vertex) ==
  [data |-> d,
   ret |-> WeightedGraph_inverse_loop(d, vertex, 0, [k \in Rows |-> None])]

WeightedGraph_max_number_of_edges(checks) ==
  IF SIZE < 1
    THEN IF checks THEN PanicSub ELSE Wrapped(0)
    ELSE Ok(SIZE * (SIZE - 1))

RECURSIVE WeightedGraph_density_loop(_, _, _, _)
WeightedGraph_density_loop(d, i, j, edges) ==
  IF i < SIZE
    THEN IF j < SIZE
           THEN WeightedGraph_density_loop(d, i, j + 1,
                                           IF is_some(d[i][j]) THEN edges + 1
                                                               ELSE edges)
           ELSE WeightedGraph_density_loop(d, i + 1, 0, edges)
    ELSE edges

WeightedGraph_density(d, checks) ==
  LET edges == WeightedGraph_density_loop(d, 0, 0, 0)
      max == WeightedGraph_max_number_of_edges(checks)
  IN  [data |-> d,
       ret |-> IF max.status = "panic"
                 THEN max
                 ELSE [status |-> max.status,
                       val |-> F32Div(AsF32(edges), AsF32(max.val))]]

RECURSIVE WeightedGraph_clear_loop(_, _, _)
WeightedGraph_clear_loop(d, i, j) ==
  IF i < SIZE
    THEN IF j < SIZE
           THEN WeightedGraph_clear_loop(Store(d, i, j, None).data, i, j + 1)
           ELSE WeightedGraph_clear_loop(d, i + 1, 0)
    ELSE d

WeightedGraph_clear(d) ==
  [data |-> WeightedGraph_clear_loop(d, 0, 0), ret |-> Ok(Unit)]

----------------------------------------------------------------------------
\* The state machine.

Kinds == {"Graph", "WeightedGraph"}

\* The index arguments tried: every valid index, and SIZE, the first one
\* out of range.
Idx == 0 .. SIZE

Init ==
  /\ SIZE \in 0 .. MaxSize
  /\ kind \in Kinds
  /\ data = (IF kind = "Graph" THEN Graph_new ELSE WeightedGraph_new)
  /\ pc = "returned"
  /\ op = "new"
  /\ args = <<>>
  /\ ret = Ok(data)
  /\ before = data
  /\ directed = FALSE

\* One call of method o with arguments a, whose outcome is r; the caller
\* must be ready.
Call(o, a, r) ==
  /\ pc' = "returned"
  /\ op' = o
  /\ args' = a
  /\ before' = data
  /\ data' = r.data
  /\ ret' = r.ret
  /\ UNCHANGED <<SIZE, kind>>

add_edge ==
  /\ pc = "ready"
  /\ \E i, j \in Idx :
       \/ /\ kind = "Graph"
          /\ Call("add_edge", <<i, j>>, Graph_add_edge(data, i, j))
       \/ /\ kind = "WeightedGraph"
          /\ \E w \in Weights :
               Call("add_edge", <<i, j, w>>, WeightedGraph_add_edge(data, i, j, w))
  /\ directed' = (directed \/ ret'.status = "ok")

add_edge_undirected ==
  /\ pc = "ready"
  /\ \E i, j \in Idx :
       \/ /\ kind = "Graph"
          /\ Call("add_edge_undirected", <<i, j>>,
                  Graph_add_edge_undirected(data, i, j))
       \/ /\ kind = "WeightedGraph"
          /\ \E w \in Weights :
               Call("add_edge_undirected", <<i, j, w>>,
                    WeightedGraph_add_edge_undirected(data, i, j, w))
  /\ UNCHANGED directed

remove_edge ==
  /\ pc = "ready"
  /\ \E i, j \in Idx :
       \/ /\ kind = "Graph"
          /\ Call("remove_edge", <<i, j>>, Graph_remove_edge(data, i, j))
       \/ /\ kind = "WeightedGraph"
          /\ Call("remove_edge", <<i, j>>, WeightedGraph_remove_edge(data, i, j))
  /\ directed' = (directed \/ ret'.status = "ok")

remove_edge_undirected ==
  /\ pc = "ready"
  /\ \E i, j \in Idx :
       \/ /\ kind = "Graph"
          /\ Call("remove_edge_undirected", <<i, j>>,
                  Graph_remove_edge_undirected(data, i, j))
       \/ /\ kind = "WeightedGraph"
          /\ Call("remove_edge_undirected", <<i, j>>,
                  WeightedGraph_remove_edge_undirected(data, i, j))
  /\ UNCHANGED directed

\* Only WeightedGraph has get_edge.
get_edge ==
  /\ pc = "ready"
  /\ kind = "WeightedGraph"
  /\ \E i, j \in Idx :
       Call("get_edge", <<i, j>>, WeightedGraph_get_edge(data, i, j))
  /\ UNCHANGED directed

has_edge ==
  /\ pc = "ready"
  /\ \E i, j \in Idx :
       \/ /\ kind = "Graph"
          /\ Call("has_edge", <<i, j>>, Graph_has_edge(data, i, j))
       \/ /\ kind = "WeightedGraph"
          /\ Call("has_edge", <<i, j>>, WeightedGraph_has_edge(data, i, j))
  /\ UNCHANGED directed

get_edges ==
  /\ pc = "ready"
  /\ \E vertex \in Idx :
       \/ /\ kind = "Graph"
          /\ Call("get_edges", <<vertex>>, Graph_get_edges(data, vertex))
       \/ /\ kind = "WeightedGraph"
          /\ Call("get_edges", <<vertex>>, WeightedGraph_get_edges(data, vertex))
  /\ UNCHANGED directed

get_inverse_edges ==
  /\ pc = "ready"
  /\ \E vertex \in Idx :
       \/ /\ kind = "Graph"
          /\ Call("get_inverse_edges", <<vertex>>,
                  Graph_get_inverse_edges(data, vertex))
       \/ /\ kind = "WeightedGraph"
          /\ Call("get_inverse_edges", <<vertex>>,
                  WeightedGraph_get_inverse_edges(data, vertex))
  /\ UNCHANGED directed

\* `checks`: whether the build has overflow checks.
max_number_of_edges ==
  /\ pc = "ready"
  /\ \E checks \in BOOLEAN :
       \/ /\ kind = "Graph"
          /\ Call("max_number_of_edges", <<>>,
                  [data |-> data, ret |-> Graph_max_number_of_edges(checks)])
       \/ /\ kind = "WeightedGraph"
          /\ Call("max_number_of_edges", <<>>,
                  [data |-> data,
                   ret |-> WeightedGraph_max_number_of_edges(checks)])
  /\ UNCHANGED directed

density ==
  /\ pc = "ready"
  /\ \E checks \in BOOLEAN :
       \/ /\ kind = "Graph"
          /\ Call("density", <<>>, Graph_density(data, checks))
       \/ /\ kind = "WeightedGraph"
          /\ Call("density", <<>>, WeightedGraph_density(data, checks))
  /\ UNCHANGED directed

clear ==
  /\ pc = "ready"
  /\ \/ /\ kind = "Graph"
        /\ Call("clear", <<>>, Graph_clear(data))
     \/ /\ kind = "WeightedGraph"
        /\ Call("clear", <<>>, WeightedGraph_clear(data))
  /\ UNCHANGED directed

\* The caller drops the value the last call returned (or has caught its
\* panic) and is ready to call again.
Return ==
  /\ pc = "returned"
  /\ pc' = "ready"
  /\ op' = "none"
  /\ args' = <<>>
  /\ ret' = Ok(Unit)
  /\ before' = data
  /\ UNCHANGED <<SIZE, kind, data, directed>>

Next ==
  \/ add_edge
  \/ add_edge_undirected
  \/ remove_edge
  \/ remove_edge_undirected
  \/ get_edge
  \/ has_edge
  \/ get_edges
  \/ get_inverse_edges
  \/ max_number_of_edges
  \/ density
  \/ clear
  \/ Return

Spec == Init /\ [][Next]_vars

----------------------------------------------------------------------------
\* Notation of the properties: the methods as the caller of either struct
\* sees them.

Valid(i) == i \in Rows

\* The last call was method o and has returned or panicked.
Called(o) == pc = "returned" /\ op = o

\* has_edge(i, j) on matrix d, for valid i, j.
HasEdge(d, i, j) ==
  IF kind = "Graph" THEN Graph_has_edge(d, i, j).ret.val
                    ELSE WeightedGraph_has_edge(d, i, j).ret.val

\* WeightedGraph::get_edge(i, j) on matrix d, for valid i, j.
GetEdge(d, i, j) == WeightedGraph_get_edge(d, i, j).ret.val

AddEdge(d, i, j, a) ==
  IF kind = "Graph" THEN Graph_add_edge(d, i, j)
                    ELSE WeightedGraph_add_edge(d, i, j, a[3])

AddEdgeUndirected(d, i, j, a) ==
  IF kind = "Graph" THEN Graph_add_edge_undirected(d, i, j)
                    ELSE WeightedGraph_add_edge_undirected(d, i, j, a[3])

RemoveEdge(d, i, j) ==
  IF kind = "Graph" THEN Graph_remove_edge(d, i, j)
                    ELSE WeightedGraph_remove_edge(d, i, j)

RemoveEdgeUndirected(d, i, j) ==
  IF kind = "Graph" THEN Graph_remove_edge_undirected(d, i, j)
                    ELSE WeightedGraph_remove_edge_undirected(d, i, j)

Density(d, checks) ==
  IF kind = "Graph" THEN Graph_density(d, checks)
                    ELSE WeightedGraph_density(d, checks)

\* The number of cells of d that has_edge reports, self-loops included.
PresentCells(d) ==
  Cardinality({c \in Rows \X Rows : HasEdge(d, c[1], c[2])})

F32Zero == F32(0, 1)
F32One == F32(1, 1)

----------------------------------------------------------------------------
\* C1: after add_edge(i, j) (with a weight in WeightedGraph) for valid
\* i # j, the call has returned, has_edge(i, j) is true and has_edge(j, i)
\* has the value it had before the call.
C1_AddEdgeFrame ==
  (Called("add_edge") /\ Valid(args[1]) /\ Valid(args[2]) /\ args[1] # args[2])
    => /\ ret = Ok(Unit)
       /\ HasEdge(data, args[1], args[2]) = TRUE
       /\ HasEdge(data, args[2], args[1]) = HasEdge(before, args[2], args[1])

\* add_edge(0, 1, 16.0) on a WeightedGraph without the edges 0->1 and 1->0:
\* get_edge(0, 1) is Some(16.0) and has_edge(1, 0) is still false.
C1_Witness ==
  /\ Called("add_edge")
  /\ kind = "WeightedGraph"
  /\ SIZE >= 2
  /\ args = <<0, 1, 16>>
  /\ ~HasEdge(before, 0, 1)
  /\ GetEdge(data, 0, 1) = Some(16)
  /\ ~HasEdge(data, 1, 0)

\* C2: after add_edge_undirected(i, j) for valid i, j (i = j included),
\* has_edge(i, j) and has_edge(j, i) are true and the matrix is the one
\* that add_edge(i, j) followed by add_edge(j, i) makes of the matrix the
\* call started from.
C2_AddUndirectedIsTwoAdds ==
  (Called("add_edge_undirected") /\ Valid(args[1]) /\ Valid(args[2]))
    => /\ ret = Ok(Unit)
       /\ HasEdge(data, args[1], args[2]) = TRUE
       /\ HasEdge(data, args[2], args[1]) = TRUE
       /\ LET first == AddEdge(before, args[1], args[2], args)
              second == AddEdge(first.data, args[2], args[1], args)
          IN  /\ first.ret = Ok(Unit)
              /\ second.ret = Ok(Unit)
              /\ data = second.data

\* add_edge_undirected(i, j), i # j, on a matrix that had neither direction.
C2_Witness ==
  /\ Called("add_edge_undirected")
  /\ Valid(args[1]) /\ Valid(args[2]) /\ args[1] # args[2]
  /\ ~HasEdge(before, args[1], args[2])
  /\ ~HasEdge(before, args[2], args[1])
  /\ HasEdge(data, args[1], args[2])
  /\ HasEdge(data, args[2], args[1])

\* C3: remove_edge(i, j) leaves has_edge(i, j) false, in particular when it
\* is called on the matrix add_edge(i, j) has just left; and
\* remove_edge_undirected(i, j) leaves has_edge(i, j) and has_edge(j, i)
\* false, in particular right after add_edge_undirected(i, j).
C3_RemoveUndoesAdd ==
  /\ (Called("add_edge") /\ Valid(args[1]) /\ Valid(args[2]))
       => LET r == RemoveEdge(data, args[1], args[2])
          IN  /\ r.ret = Ok(Unit)
              /\ HasEdge(r.data, args[1], args[2]) = FALSE
  /\ (Called("add_edge_undirected") /\ Valid(args[1]) /\ Valid(args[2]))
       => LET r == RemoveEdgeUndirected(data, args[1], args[2])
          IN  /\ r.ret = Ok(Unit)
              /\ HasEdge(r.data, args[1], args[2]) = FALSE
              /\ HasEdge(r.data, args[2], args[1]) = FALSE
  /\ (Called("remove_edge") /\ Valid(args[1]) /\ Valid(args[2]))
       => /\ ret = Ok(Unit)
          /\ HasEdge(data, args[1], args[2]) = FALSE
  /\ (Called("remove_edge_undirected") /\ Valid(args[1]) /\ Valid(args[2]))
       => /\ ret = Ok(Unit)
          /\ HasEdge(data, args[1], args[2]) = FALSE
          /\ HasEdge(data, args[2], args[1]) = FALSE

\* add_edge_undirected(i, j), i # j, has just made both directions present
\* and remove_edge_undirected(i, j) on that matrix takes both away.
C3_Witness ==
  /\ Called("add_edge_undirected")
  /\ Valid(args[1]) /\ Valid(args[2]) /\ args[1] # args[2]
  /\ HasEdge(data, args[1], args[2])
  /\ HasEdge(data, args[2], args[1])
  /\ ~HasEdge(RemoveEdgeUndirected(data, args[1], args[2]).data, args[1], args[2])
  /\ ~HasEdge(RemoveEdgeUndirected(data, args[1], args[2]).data, args[2], args[1])

\* C4: for SIZE >= 1, after clear() has_edge(i, j) is false for all valid
\* i, j (get_edge(i, j) is None in WeightedGraph) and density() returns 0.0,
\* whatever the build.
C4_ClearThenDensityZero ==
  (Called("clear") /\ SIZE >= 1)
    => /\ ret = Ok(Unit)
       /\ \A i, j \in Rows :
            /\ HasEdge(data, i, j) = FALSE
            /\ kind = "WeightedGraph" => GetEdge(data, i, j) = None
       /\ \A checks \in BOOLEAN :
            LET r == Density(data, checks).ret
            IN  r.status = "ok" /\ F32Eq(r.val, F32Zero)

\* What remains of C4 on a graph with at least two vertices (SIZE >= 2).
C4_ClearThenDensityZeroFrom2 == SIZE >= 2 => C4_ClearThenDensityZero

\* C5: get_inverse_edges(v) for a valid v returns the array whose element u
\* is has_edge(u, v) (Graph) or get_edge(u, v) (WeightedGraph), and leaves
\* the matrix as it was.
C5_InverseEdgesIsColumn ==
  (Called("get_inverse_edges") /\ Valid(args[1]))
    => /\ ret.status = "ok"
       /\ DOMAIN ret.val = Rows
       /\ \A u \in Rows :
            ret.val[u] = (IF kind = "Graph" THEN HasEdge(data, u, args[1])
                                            ELSE GetEdge(data, u, args[1]))
       /\ data = before

\* get_inverse_edges(v) on a matrix with an edge u -> v and no edge v -> u:
\* the column of v differs from its row.
C5_Witness ==
  /\ Called("get_inverse_edges")
  /\ Valid(args[1])
  /\ ret.status = "ok"
  /\ \E u \in Rows :
       /\ HasEdge(data, u, args[1])
       /\ ~HasEdge(data, args[1], u)
       /\ ret.val[u] = data[u][args[1]]

\* C6: in WeightedGraph, get_edge(i, j) is None for all valid i, j on a new
\* graph; after add_edge(i, j, w) get_edge(i, j) is Some(w) and
\* has_edge(i, j) is true, whatever was stored before and also for w = 0;
\* and has_edge(i, j), called in any state, returns true exactly when
\* get_edge(i, j) is Some.
C6_WeightedGetEdge ==
  kind = "WeightedGraph"
    => /\ Called("new") => \A i, j \in Rows : GetEdge(data, i, j) = None
       /\ (Called("add_edge") /\ Valid(args[1]) /\ Valid(args[2]))
            => /\ GetEdge(data, args[1], args[2]) = Some(args[3])
               /\ HasEdge(data, args[1], args[2]) = TRUE
       /\ (Called("has_edge") /\ Valid(args[1]) /\ Valid(args[2]))
            => ret = Ok(\E w \in Weights : GetEdge(data, args[1], args[2]) = Some(w))

\* add_edge(i, j, 0.0) over a cell that held Some(16.0).
C6_Witness ==
  /\ kind = "WeightedGraph"
  /\ Called("add_edge")
  /\ Valid(args[1]) /\ Valid(args[2])
  /\ args[3] = 0
  /\ GetEdge(before, args[1], args[2]) = Some(16)
  /\ GetEdge(data, args[1], args[2]) = Some(0)
  /\ HasEdge(data, args[1], args[2])

\* C7: max_number_of_edges() returns SIZE * (SIZE - 1) for any SIZE, without
\* a usize underflow or overflow on the way, and leaves the matrix alone.
C7_MaxNumberOfEdges ==
  Called("max_number_of_edges")
    => /\ ret = Ok(SIZE * (SIZE - 1))
       /\ data = before

\* What remains of C7 on a graph with at least one vertex (SIZE >= 1).
C7_MaxNumberOfEdgesNonEmpty == SIZE >= 1 => C7_MaxNumberOfEdges

\* C8: for SIZE >= 2, density() is the number of present cells (self-loops
\* included) over SIZE * (SIZE - 1), so it is exactly 1.0 when every edge
\* i # j is present and no self-loop is; and it leaves the matrix alone.
C8_Density ==
  (Called("density") /\ SIZE >= 2)
    => /\ ret.status = "ok"
       /\ ret.val.kind = "finite"
       /\ ret.val.num * (SIZE * (SIZE - 1)) = PresentCells(data) * ret.val.den
       /\ GCD(ret.val.num, ret.val.den) = 1
       /\ (\A i, j \in Rows : HasEdge(data, i, j) = (i # j))
            => F32Eq(ret.val, F32One)
       /\ data = before

\* density() is 1.0 on a graph of SIZE >= 2 that holds every edge i # j and
\* no self-loop.
C8_Witness ==
  /\ Called("density")
  /\ SIZE >= 2
  /\ \A i, j \in Rows : HasEdge(data, i, j) = (i # j)
  /\ ret = Ok(F32One)

\* The index arguments of the last call.
IndexArgs ==
  IF op \in {"get_edges", "get_inverse_edges"} THEN {args[1]}
  ELSE IF op \in {"add_edge", "add_edge_undirected", "remove_edge",
                  "remove_edge_undirected", "has_edge", "get_edge"}
         THEN {args[1], args[2]}
         ELSE {}

\* C9: a call of an indexed method with an index outside 0..SIZE-1 ends in
\* the index-out-of-bounds panic and leaves the matrix as it was.
C9_OutOfRangePanics ==
  (pc = "returned" /\ \E k \in IndexArgs : ~Valid(k))
    => /\ ret = PanicIndex
       /\ data = before

\* What remains of C9 on a graph with at least one vertex (SIZE >= 1).
C9_OutOfRangePanicsNonEmpty == SIZE >= 1 => C9_OutOfRangePanics

\* The cells (i, j) and (j, i) agree everywhere.
Symmetric ==
  \A i, j \in Rows :
    /\ HasEdge(data, i, j) = HasEdge(data, j, i)
    /\ kind = "WeightedGraph" => GetEdge(data, i, j) = GetEdge(data, j, i)

\* C10: as long as neither add_edge nor remove_edge has written a cell, the
\* matrix is symmetric.
C10_UndirectedKeepsSymmetry == ~directed => Symmetric

\* add_edge_undirected(i, j, w), i # j, over an edge of another weight, with
\* no directed write so far.
C10_Witness ==
  /\ ~directed
  /\ kind = "WeightedGraph"
  /\ Called("add_edge_undirected")
  /\ Valid(args[1]) /\ Valid(args[2]) /\ args[1] # args[2]
  /\ is_some(before[args[1]][args[2]])
  /\ before[args[1]][args[2]] # Some(args[3])
  /\ data[args[1]][args[2]] = Some(args[3])
  /\ data[args[2]][args[1]] = Some(args[3])

\* The second half of C10: one add_edge(i, j), i # j, as the first directed
\* write, leaves the matrix asymmetric.
C10_DirectedBreaksSymmetry ==
  /\ Called("add_edge")
  /\ Valid(args[1]) /\ Valid(args[2]) /\ args[1] # args[2]
  /\ \A i, j \in Rows : before[i][j] = before[j][i]
  /\ ~Symmetric

====
